---- MODULE Spec2Model ----
(***************************************************************************)
(* Model of analyze_time_series (src/weather_analysis.py).                 *)
(*                                                                         *)
(* One behaviour is one call: Init chooses the two arguments, the actions  *)
(* are the successive stages of the function body, and the call ends in    *)
(* pc = "returned" (a result dict) or pc = "raised" (an exception).        *)
(*                                                                         *)
(* Python values are records [k, n, s]:                                    *)
(*   k = "none"    None                                                    *)
(*   k = "int"     the int n                                               *)
(*   k = "bigint"  an int of magnitude 2^1024 - 2^970 or more, beyond the  *)
(*                 float range (float() overflows); n is not used          *)
(*   k = "str"     a str whose characters are the code points s; float()   *)
(*                 parses it, to a finite value, an infinity or NaN        *)
(*   k = "list"    a list object used as an element (float() TypeError)    *)
(* Indices are 0-based as in the source; element i of a Python list is     *)
(* items[i + 1] of the TLA+ sequence.                                      *)
(***************************************************************************)
EXTENDS Integers, Sequences, FiniteSets

VARIABLES times, temperatures, pc, len_times, len_temps, truncated, warnings,
          effective_length, i, valid_times, valid_temps, skipped_pairs,
          inspected, result, error

vars == <<times, temperatures, pc, len_times, len_temps, truncated, warnings,
          effective_length, i, valid_times, valid_temps, skipped_pairs,
          inspected, result, error>>

MaxLen == 3

----------------------------------------------------------------------------
(* Python values *)

NoneV == [k |-> "none", n |-> 0, s |-> <<>>]
IntV(x) == [k |-> "int", n |-> x, s |-> <<>>]
BigIntV == [k |-> "bigint", n |-> 0, s |-> <<>>]
StrV(cs) == [k |-> "str", n |-> 0, s |-> cs]
ListV == [k |-> "list", n |-> 0, s |-> <<>>]

(* times "A", "B"; temperatures 1, 2, "2.0", "x", "nan", [], 10**400 *)
TimeElems == {NoneV, StrV(<<65>>), StrV(<<66>>)}
TempElems == {NoneV, IntV(1), IntV(2), StrV(<<50, 46, 48>>), StrV(<<120>>),
              StrV(<<110, 97, 110>>), ListV, BigIntV}

SeqsUpTo(S, m) == UNION {[1..l -> S] : l \in 0..m}

(* An argument: None, an object without len() (e.g. an int), an object    *)
(* with len() but no integer indexing (e.g. a set), or a list.            *)
NoneArg == [kind |-> "none", items |-> <<>>]
NoLenArg == [kind |-> "nolen", items |-> <<>>]
SizedArg(xs) == [kind |-> "sized", items |-> xs]
SeqArg(xs) == [kind |-> "seq", items |-> xs]

TimesArgs == {NoneArg, NoLenArg}
             \cup {SizedArg([j \in 1..l |-> StrV(<<65>>)]) : l \in 0..MaxLen}
             \cup {SeqArg(xs) : xs \in SeqsUpTo(TimeElems, MaxLen)}
TempsArgs == {NoneArg, NoLenArg}
             \cup {SizedArg([j \in 1..l |-> IntV(1)]) : l \in 0..MaxLen}
             \cup {SeqArg(xs) : xs \in SeqsUpTo(TempElems, MaxLen)}

----------------------------------------------------------------------------
(* Built-ins used by the function *)

HasLen(a) == a.kind \in {"sized", "seq"}
PyLen(a) == Len(a.items)
Subscriptable(a) == a.kind = "seq"
GetItem(a, idx) == a.items[idx + 1]

Min2(a, b) == IF a <= b THEN a ELSE b

(* Floats are records [cls, num, den, neg].  cls = "fin" is a finite       *)
(* double held as the fraction num/den in lowest terms (den >= 1); neg     *)
(* marks the negative zero.  While |num| and den are at most 2^25 the      *)
(* fraction stands for the double nearest to it: two such fractions that   *)
(* differ are at least 2^-50 apart relative to their size, so they have    *)
(* different nearest doubles, in the same order.  Any other fraction held  *)
(* is the double itself.  cls = "inf" is the infinity of sign num, "nan"   *)
(* is NaN, "none" stands for None where a float is optional, and "sqrt"    *)
(* is the double nearest to the square root of num/den.                    *)
Abs(x) == IF x < 0 THEN -x ELSE x
Max2(a, b) == IF a >= b THEN a ELSE b
RECURSIVE GCD(_, _)
GCD(a, b) == IF b = 0 THEN a ELSE GCD(b, a % b)
RECURSIVE Pow2(_)
Pow2(e) == IF e = 0 THEN 1 ELSE 2 * Pow2(e - 1)
RECURSIVE Pow10(_)
Pow10(e) == IF e = 0 THEN 1 ELSE 10 * Pow10(e - 1)
RECURSIVE IsPow2(_)
IsPow2(b) == b = 1 \/ (b % 2 = 0 /\ IsPow2(b \div 2))
RECURSIVE NDigits(_)
NDigits(x) == IF x < 10 THEN 1 ELSE 1 + NDigits(x \div 10)

Reduced(num, den) == LET g == GCD(Abs(num), den)
                     IN [cls |-> "fin", num |-> num \div g, den |-> den \div g,
                         neg |-> FALSE]
Zero(neg) == [cls |-> "fin", num |-> 0, den |-> 1, neg |-> neg]
Inf(sign) == [cls |-> "inf", num |-> sign, den |-> 1, neg |-> FALSE]
NaN == [cls |-> "nan", num |-> 0, den |-> 1, neg |-> FALSE]
FNone == [cls |-> "none", num |-> 0, den |-> 1, neg |-> FALSE]
IsFinite(a) == a.cls = "fin"
Small(a) == Abs(a.num) <= Pow2(25) /\ a.den <= Pow2(25)

(* floor(log2(a / b)) for a, b >= 1 *)
RECURSIVE FloorLog2(_, _)
FloorLog2(a, b) == IF a >= 2 * b THEN FloorLog2(a, 2 * b) + 1
                   ELSE IF a < b THEN FloorLog2(2 * a, b) - 1
                   ELSE 0

(* x / y (x >= 0, y >= 1) to the nearest integer, ties to even *)
RoundHalfEven(x, y) ==
    LET f == x \div y
        r == x % y
    IN IF 2 * r < y \/ (2 * r = y /\ f % 2 = 0) THEN f ELSE f + 1

(* IEEE 754 binary64 round-to-nearest-even of sign * a / b (a, b >= 1):    *)
(* 53 significant bits, exponents -1022..1023, gradual underflow           *)
RoundDouble(sign, a, b) ==
    LET e == Max2(FloorLog2(a, b), -1022)
        n == IF e <= 52 THEN RoundHalfEven(a * Pow2(52 - e), b)
             ELSE RoundHalfEven(a, b * Pow2(e - 52))
    IN IF e > 1023 \/ (e = 1023 /\ n = Pow2(53)) THEN Inf(sign)
       ELSE IF n = 0 THEN Zero(sign < 0)
       ELSE IF e <= 52 THEN Reduced(sign * n, Pow2(52 - e))
       ELSE Reduced(sign * n * Pow2(e - 52), 1)

(* The float for the real number num / den (den >= 1, num # 0) *)
MakeFloat(num, den) ==
    LET q == Reduced(num, den)
    IN IF Small(q) THEN q
       ELSE RoundDouble(IF num < 0 THEN -1 ELSE 1, Abs(num), den)

(* The value of a finite float as an exact fraction *)
Exact(a) ==
    IF a.num = 0 \/ (Small(a) /\ IsPow2(a.den)) THEN a
    ELSE RoundDouble(IF a.num < 0 THEN -1 ELSE 1, Abs(a.num), a.den)

(* a == b on floats: NaN equals nothing, the two zeros are equal *)
FEq(a, b) ==
    IF a.cls = "nan" \/ b.cls = "nan" THEN FALSE
    ELSE IF a.cls = "inf" \/ b.cls = "inf" THEN a.cls = b.cls /\ a.num = b.num
    ELSE IF Small(a) /\ Small(b) THEN a.num = b.num /\ a.den = b.den
    ELSE Exact(a).num = Exact(b).num /\ Exact(a).den = Exact(b).den

(* a < b on floats: every comparison with NaN is false *)
FLt(a, b) ==
    IF a.cls = "nan" \/ b.cls = "nan" THEN FALSE
    ELSE IF a.cls = "inf" THEN a.num < 0 /\ ~(b.cls = "inf" /\ b.num < 0)
    ELSE IF b.cls = "inf" THEN b.num > 0
    ELSE IF Small(a) /\ Small(b) THEN a.num * b.den < b.num * a.den
    ELSE Exact(a).num * Exact(b).den < Exact(b).num * Exact(a).den

(* a + b on floats *)
FAdd(a, b) ==
    IF a.cls = "nan" \/ b.cls = "nan" THEN NaN
    ELSE IF a.cls = "inf" /\ b.cls = "inf" THEN (IF a.num = b.num THEN a ELSE NaN)
    ELSE IF a.cls = "inf" THEN a
    ELSE IF b.cls = "inf" THEN b
    ELSE LET x == Exact(a)
             y == Exact(b)
             num == x.num * y.den + y.num * x.den
         IN IF num = 0 THEN Zero(a.neg /\ b.neg)
            ELSE MakeFloat(num, x.den * y.den)

(* a / n on a float a and an int n >= 1 that float(n) holds exactly *)
FDivInt(a, n) ==
    IF ~IsFinite(a) \/ a.num = 0 THEN a
    ELSE MakeFloat(Exact(a).num, Exact(a).den * n)

(* float(str): characters are Unicode code points.  Characters below 127   *)
(* are kept, other white space becomes a space, other decimal digits       *)
(* become ASCII digits, anything else becomes "?".  Then: surrounding      *)
(* white space, a sign, and inf / infinity / nan in any case, or digits    *)
(* with an optional point and exponent; an underscore is allowed only      *)
(* between two digits.                                                     *)
UnicodeSpaces == (9..13) \cup {32, 133, 160, 5760} \cup (8192..8202)
                 \cup {8232, 8233, 8239, 8287, 12288}
DecimalZeros ==
    {48, 1632, 1776, 1984, 2406, 2534, 2662, 2790, 2918, 3046, 3174, 3302,
     3430, 3558, 3664, 3792, 3872, 4160, 4240, 6112, 6160, 6470, 6608,
     6784, 6800, 6992, 7088, 7232, 7248, 42528, 43216, 43264, 43472, 43504,
     43600, 44016, 65296, 66720, 68912, 69734, 69872, 69942, 70096, 70384,
     70736, 70864, 71248, 71360, 71472, 71904, 72016, 72784, 73040, 73120,
     92768, 92864, 93008, 120782, 120792, 120802, 120812, 120822, 123200,
     123632, 125264, 130032}
IsDecimal(c) == \E z \in DecimalZeros : c \in z..(z + 9)
ToAsciiChar(c) ==
    IF c < 127 THEN c
    ELSE IF c \in UnicodeSpaces THEN 32
    ELSE IF IsDecimal(c) THEN 48 + (c - (CHOOSE z \in DecimalZeros : c \in z..(z + 9)))
    ELSE 63
ToAscii(cs) == [j \in 1..Len(cs) |-> ToAsciiChar(cs[j])]

Spaces == (9..13) \cup {32}
Digits == 48..57
DigitVal(c) == c - 48

RECURSIVE ParseDigits(_)
ParseDigits(cs) == IF cs = <<>> THEN 0
                   ELSE 10 * ParseDigits(SubSeq(cs, 1, Len(cs) - 1)) + DigitVal(cs[Len(cs)])

RECURSIVE LStrip(_)
LStrip(cs) == IF cs # <<>> /\ cs[1] \in Spaces THEN LStrip(Tail(cs)) ELSE cs
RECURSIVE RStrip(_)
RStrip(cs) == IF cs # <<>> /\ cs[Len(cs)] \in Spaces
              THEN RStrip(SubSeq(cs, 1, Len(cs) - 1)) ELSE cs
Strip(cs) == RStrip(LStrip(cs))

Lower(c) == IF c \in 65..90 THEN c + 32 ELSE c
LowerSeq(cs) == [j \in 1..Len(cs) |-> Lower(cs[j])]

(* "+" is 43, "-" is 45 *)
HasSign(cs) == cs # <<>> /\ cs[1] \in {43, 45}
SignOf(cs) == IF cs # <<>> /\ cs[1] = 45 THEN -1 ELSE 1
Unsigned(cs) == IF HasSign(cs) THEN Tail(cs) ELSE cs

(* "_" is 95 *)
DigitGroup(cs) ==
    /\ cs # <<>>
    /\ \A j \in 1..Len(cs) : cs[j] \in Digits \cup {95}
    /\ cs[1] \in Digits
    /\ cs[Len(cs)] \in Digits
    /\ \A j \in 1..(Len(cs) - 1) : ~(cs[j] = 95 /\ cs[j + 1] = 95)
NotUnderscore(c) == c # 95
DigitsOf(cs) == SelectSeq(cs, NotUnderscore)

FirstPos(cs, S) == IF \E j \in 1..Len(cs) : cs[j] \in S
                   THEN CHOOSE j \in 1..Len(cs) :
                            cs[j] \in S /\ \A l \in 1..(j - 1) : cs[l] \notin S
                   ELSE 0

(* The double nearest to sign * m * 10^p.  Values of 10^310 and more are   *)
(* beyond the largest double, values below 10^-330 are below half the      *)
(* smallest one.                                                           *)
FromDecimal(sign, m, p) ==
    IF m = 0 THEN Zero(sign < 0)
    ELSE IF NDigits(m) + p > 310 THEN Inf(sign)
    ELSE IF NDigits(m) + p < -330 THEN Zero(sign < 0)
    ELSE IF p >= 0 THEN MakeFloat(sign * m * Pow10(p), 1)
    ELSE MakeFloat(sign * m, Pow10(-p))

(* "e" is 101, "E" is 69, "." is 46 *)
ParseFloat(cs) ==
    LET txt == Strip(ToAscii(cs))
        sign == SignOf(txt)
        body == Unsigned(txt)
        word == LowerSeq(body)
        ePos == FirstPos(body, {101, 69})
        mant == IF ePos = 0 THEN body ELSE SubSeq(body, 1, ePos - 1)
        expo == IF ePos = 0 THEN <<>> ELSE SubSeq(body, ePos + 1, Len(body))
        dPos == FirstPos(mant, {46})
        ip == IF dPos = 0 THEN mant ELSE SubSeq(mant, 1, dPos - 1)
        fp == IF dPos = 0 THEN <<>> ELSE SubSeq(mant, dPos + 1, Len(mant))
        mantOk == IF dPos = 0 THEN DigitGroup(mant)
                  ELSE /\ ip = <<>> \/ DigitGroup(ip)
                       /\ fp = <<>> \/ DigitGroup(fp)
                       /\ ~(ip = <<>> /\ fp = <<>>)
        expoOk == ePos = 0 \/ DigitGroup(Unsigned(expo))
        e == IF ePos = 0 THEN 0
             ELSE SignOf(expo) * ParseDigits(DigitsOf(Unsigned(expo)))
    IN IF word \in {<<105, 110, 102>>, <<105, 110, 102, 105, 110, 105, 116, 121>>}
       THEN [exc |-> "", val |-> Inf(sign)]
       ELSE IF word = <<110, 97, 110>>
       THEN [exc |-> "", val |-> NaN]
       ELSE IF mantOk /\ expoOk
       THEN [exc |-> "",
             val |-> FromDecimal(sign, ParseDigits(DigitsOf(ip) \o DigitsOf(fp)),
                                 e - Len(DigitsOf(fp)))]
       ELSE [exc |-> "ValueError", val |-> FNone]

(* float(int): the nearest double, OverflowError beyond the double range *)
FloatOfInt(n) ==
    IF n = 0 THEN [exc |-> "", val |-> Zero(FALSE)]
    ELSE IF MakeFloat(n, 1).cls = "inf" THEN [exc |-> "OverflowError", val |-> FNone]
    ELSE [exc |-> "", val |-> MakeFloat(n, 1)]

(* float(v): [exc |-> "", val |-> f] on success, else the exception type *)
Float(v) ==
    CASE v.k = "int" -> FloatOfInt(v.n)
      [] v.k = "bigint" -> [exc |-> "OverflowError", val |-> FNone]
      [] v.k = "str" -> ParseFloat(v.s)
      [] OTHER -> [exc |-> "TypeError", val |-> FNone]

(* except (TypeError, ValueError) *)
Caught(exc) == exc \in {"TypeError", "ValueError"}

(* min(xs), max(xs): left to right, replaced only by a strictly smaller    *)
(* (greater) element                                                       *)
RECURSIVE ListMin(_)
ListMin(xs) == IF Len(xs) = 1 THEN xs[1]
               ELSE LET m == ListMin(SubSeq(xs, 1, Len(xs) - 1))
                    IN IF FLt(xs[Len(xs)], m) THEN xs[Len(xs)] ELSE m
RECURSIVE ListMax(_)
ListMax(xs) == IF Len(xs) = 1 THEN xs[1]
               ELSE LET m == ListMax(SubSeq(xs, 1, Len(xs) - 1))
                    IN IF FLt(m, xs[Len(xs)]) THEN xs[Len(xs)] ELSE m
(* sum(xs): from 0, left to right, each addition rounded *)
RECURSIVE ListSum(_)
ListSum(xs) == IF xs = <<>> THEN Zero(FALSE)
               ELSE FAdd(ListSum(SubSeq(xs, 1, Len(xs) - 1)), xs[Len(xs)])

(* An element matches x when it is x itself or equals x; x is an element   *)
(* of the list (the value min or max returned), so a NaN x is the NaN it   *)
(* was taken from.                                                         *)
Matches(y, x) == (y.cls = "nan" /\ x.cls = "nan") \/ FEq(y, x)
ListIndexLast(xs, x) == (CHOOSE j \in 1..Len(xs) :
                            Matches(xs[j], x) /\ \A l \in (j + 1)..Len(xs) : ~Matches(xs[l], x)) - 1
(* list.index(x): 0-based position of the first element matching x *)
ListIndex(xs, x) == (CHOOSE j \in 1..Len(xs) :
                        Matches(xs[j], x) /\ \A l \in 1..(j - 1) : ~Matches(xs[l], x)) - 1

(* sorted(xs) for fewer than 64 elements, as list.sort does it: the        *)
(* leading run (non-descending, or strictly descending and then reversed)  *)
(* is kept and every later element is placed by binary insertion.          *)
Reverse(xs) == [j \in 1..Len(xs) |-> xs[Len(xs) + 1 - j]]
RECURSIVE RunEnd(_, _, _)
RunEnd(xs, k, desc) == IF k < Len(xs) /\ FLt(xs[k + 1], xs[k]) = desc
                       THEN RunEnd(xs, k + 1, desc)
                       ELSE k
RECURSIVE BinPos(_, _, _, _)
BinPos(xs, pivot, l, r) ==
    IF l >= r THEN l
    ELSE LET p == l + ((r - l) \div 2)
         IN IF FLt(pivot, xs[p + 1]) THEN BinPos(xs, pivot, l, p)
            ELSE BinPos(xs, pivot, p + 1, r)
RECURSIVE BinarySort(_, _)
BinarySort(xs, start) ==
    IF start >= Len(xs) THEN xs
    ELSE LET pivot == xs[start + 1]
             pos == BinPos(xs, pivot, 0, start)
         IN BinarySort(SubSeq(xs, 1, pos) \o <<pivot>> \o SubSeq(xs, pos + 1, start)
                          \o SubSeq(xs, start + 2, Len(xs)),
                       start + 1)
Sorted(xs) ==
    IF Len(xs) < 2 THEN xs
    ELSE LET desc == FLt(xs[2], xs[1])
             k == RunEnd(xs, 2, desc)
             run == SubSeq(xs, 1, k)
         IN BinarySort((IF desc THEN Reverse(run) ELSE run) \o SubSeq(xs, k + 1, Len(xs)), k)

(* calculate_median: statistics.median, None on an empty list *)
calculate_median(xs) ==
    IF xs = <<>> THEN FNone
    ELSE LET srt == Sorted(xs)
             n == Len(xs)
         IN IF n % 2 = 1 THEN srt[(n \div 2) + 1]
            ELSE FDivInt(FAdd(srt[n \div 2], srt[(n \div 2) + 1]), 2)

(* Exact fractions, as statistics computes with them *)
QAdd(a, b) == Reduced(a.num * b.den + b.num * a.den, a.den * b.den)
QMul(a, b) == Reduced(a.num * b.num, a.den * b.den)
RECURSIVE QSum(_)
QSum(qs) == IF qs = <<>> THEN Reduced(0, 1) ELSE QAdd(qs[1], QSum(Tail(qs)))

(* The exact sample variance (n * sum(x^2) - sum(x)^2) / (n * (n - 1)) of  *)
(* two or more finite floats                                               *)
Variance(xs) ==
    LET n == Len(xs)
        ex == [j \in 1..n |-> Exact(xs[j])]
        sx == QSum(ex)
        sxx == QSum([j \in 1..n |-> QMul(ex[j], ex[j])])
        ss == QAdd(QMul(Reduced(n, 1), sxx), QMul(Reduced(-1, 1), QMul(sx, sx)))
    IN QMul(ss, Reduced(1, n * (n - 1)))

SqrtOf(v) == [cls |-> "sqrt", num |-> v.num, den |-> v.den, neg |-> FALSE]

(* The largest double is 2^1024 - 2^971; a square root rounds beyond it    *)
(* from 2^1024 - 2^970 on.                                                 *)
SqrtOverflows(v) ==
    /\ ~Small(v)
    /\ v.num >= (Pow2(1024) - Pow2(970)) * (Pow2(1024) - Pow2(970)) * v.den

(* statistics.stdev on two or more floats: AttributeError when one is an   *)
(* infinity or NaN (CPython 3.11: 'float' object has no attribute          *)
(* 'numerator'), OverflowError when the root exceeds the double range.     *)
(* Else the correctly rounded square root of the exact sample variance.    *)
Stdev(xs) ==
    IF \E j \in 1..Len(xs) : ~IsFinite(xs[j])
    THEN [exc |-> "AttributeError", val |-> FNone]
    ELSE IF SqrtOverflows(Variance(xs))
    THEN [exc |-> "OverflowError", val |-> FNone]
    ELSE [exc |-> "", val |-> SqrtOf(Variance(xs))]

(* calculate_standard_deviation: None below two points, else stdev *)
calculate_standard_deviation(xs) ==
    IF Len(xs) < 2 THEN [exc |-> "", val |-> FNone]
    ELSE Stdev(xs)

----------------------------------------------------------------------------
(* Exceptions, warnings, result *)

NoError == [type |-> "", cause |-> "", index |-> -1, value |-> NoneV]
WeatherAnalysisError(cause, idx, v) ==
    [type |-> "WeatherAnalysisError", cause |-> cause, index |-> idx, value |-> v]
Uncaught(type) == [type |-> type, cause |-> "", index |-> -1, value |-> NoneV]

(* f"Input lengths differ: times={len_times}, temperatures={len_temps}; ..." *)
LengthWarning(lt, ltp) == [w |-> "lengths_differ", a |-> lt, b |-> ltp]
(* f"Skipped {skipped_pairs} pair(s) where time or temperature was missing." *)
SkippedWarning(k) == [w |-> "skipped", a |-> k, b |-> 0]

NoResult == [median |-> FNone, stddev |-> FNone, min |-> FNone, min_time |-> NoneV,
             max |-> FNone, max_time |-> NoneV, average |-> FNone,
             truncated |-> FALSE, warnings |-> <<>>, count |-> 0]

----------------------------------------------------------------------------
Init ==
    /\ times \in TimesArgs
    /\ temperatures \in TempsArgs
    /\ pc = "check_none"
    /\ len_times = 0
    /\ len_temps = 0
    /\ truncated = FALSE
    /\ warnings = <<>>
    /\ effective_length = 0
    /\ i = 0
    /\ valid_times = <<>>
    /\ valid_temps = <<>>
    /\ skipped_pairs = 0
    /\ inspected = {}
    /\ result = NoResult
    /\ error = NoError

Raise(e) == pc' = "raised" /\ error' = e

(* if times is None or temperatures is None: raise *)
CheckNone ==
    /\ pc = "check_none"
    /\ IF times.kind = "none" \/ temperatures.kind = "none"
       THEN Raise(WeatherAnalysisError("missing", -1, NoneV))
       ELSE pc' = "lengths" /\ UNCHANGED error
    /\ UNCHANGED <<times, temperatures, len_times, len_temps, truncated, warnings,
                   effective_length, i, valid_times, valid_temps, skipped_pairs,
                   inspected, result>>

(* try: len(times); len(temperatures)  except TypeError: raise *)
GetLengths ==
    /\ pc = "lengths"
    /\ IF HasLen(times) /\ HasLen(temperatures)
       THEN /\ len_times' = PyLen(times)
            /\ len_temps' = PyLen(temperatures)
            /\ pc' = "check_empty"
            /\ UNCHANGED error
       ELSE /\ Raise(WeatherAnalysisError("not_sequence", -1, NoneV))
            /\ len_times' = IF HasLen(times) THEN PyLen(times) ELSE len_times
            /\ UNCHANGED len_temps
    /\ UNCHANGED <<times, temperatures, truncated, warnings,
                   effective_length, i, valid_times, valid_temps, skipped_pairs,
                   inspected, result>>

(* if len_times == 0 or len_temps == 0: raise *)
CheckEmpty ==
    /\ pc = "check_empty"
    /\ IF len_times = 0 \/ len_temps = 0
       THEN Raise(WeatherAnalysisError("empty", -1, NoneV))
       ELSE pc' = "reconcile" /\ UNCHANGED error
    /\ UNCHANGED <<times, temperatures, len_times, len_temps, truncated, warnings,
                   effective_length, i, valid_times, valid_temps, skipped_pairs,
                   inspected, result>>

EffectiveLengthMax(lt, ltp) == IF lt >= ltp THEN lt ELSE ltp
(* effective_length = min(len_times, len_temps) *)
EffectiveLength(lt, ltp) == Min2(lt, ltp)

(* if len_times != len_temps: truncated, warning; effective_length *)
Reconcile ==
    /\ pc = "reconcile"
    /\ IF len_times # len_temps
       THEN /\ truncated' = TRUE
            /\ warnings' = Append(warnings, LengthWarning(len_times, len_temps))
       ELSE UNCHANGED <<truncated, warnings>>
    /\ effective_length' = EffectiveLength(len_times, len_temps)
    /\ i' = 0
    /\ pc' = "loop"
    /\ UNCHANGED <<times, temperatures, len_times, len_temps,
                   valid_times, valid_temps, skipped_pairs, inspected, result, error>>

PairStepCoerceFirst(t, temp) ==
    IF temp = NoneV THEN "skip"
    ELSE IF Float(temp).exc # "" THEN (IF Caught(Float(temp).exc) THEN "invalid" ELSE "uncaught")
    ELSE IF t = NoneV THEN "skip"
    ELSE "valid"
(* One pair of the loop body: the None test, then float(temp) *)
PairStep(t, temp) ==
    IF t = NoneV \/ temp = NoneV THEN "skip"
    ELSE IF Float(temp).exc = "" THEN "valid"
    ELSE IF Caught(Float(temp).exc) THEN "invalid"
    ELSE "uncaught"

(* One iteration of  for i in range(effective_length) *)
LoopStep ==
    /\ pc = "loop"
    /\ i < effective_length
    /\ inspected' = inspected \cup {i}
    /\ IF ~Subscriptable(times) \/ ~Subscriptable(temperatures)
       THEN /\ Raise(Uncaught("TypeError"))
            /\ UNCHANGED <<i, valid_times, valid_temps, skipped_pairs>>
       ELSE IF i >= PyLen(times) \/ i >= PyLen(temperatures)
       THEN /\ Raise(Uncaught("IndexError"))
            /\ UNCHANGED <<i, valid_times, valid_temps, skipped_pairs>>
       ELSE LET t == GetItem(times, i)
                temp == GetItem(temperatures, i)
                step == PairStep(t, temp)
            IN CASE step = "skip" ->
                      /\ skipped_pairs' = skipped_pairs + 1
                      /\ i' = i + 1
                      /\ UNCHANGED <<pc, error, valid_times, valid_temps>>
                 [] step = "invalid" ->
                      /\ Raise(WeatherAnalysisError("invalid_temperature", i, temp))
                      /\ UNCHANGED <<i, valid_times, valid_temps, skipped_pairs>>
                 [] step = "uncaught" ->
                      /\ Raise(Uncaught(Float(temp).exc))
                      /\ UNCHANGED <<i, valid_times, valid_temps, skipped_pairs>>
                 [] step = "valid" ->
                      /\ valid_times' = Append(valid_times, t)
                      /\ valid_temps' = Append(valid_temps, Float(temp).val)
                      /\ i' = i + 1
                      /\ UNCHANGED <<pc, error, skipped_pairs>>
    /\ UNCHANGED <<times, temperatures, len_times, len_temps, truncated, warnings,
                   effective_length, result>>

(* End of the loop:  if skipped_pairs: warnings.append(...) *)
LoopExit ==
    /\ pc = "loop"
    /\ i >= effective_length
    /\ warnings' = IF skipped_pairs # 0
                   THEN Append(warnings, SkippedWarning(skipped_pairs))
                   ELSE warnings
    /\ pc' = "check_valid"
    /\ UNCHANGED <<times, temperatures, len_times, len_temps, truncated,
                   effective_length, i, valid_times, valid_temps, skipped_pairs,
                   inspected, result, error>>

CheckValidNever ==
    /\ pc = "check_valid"
    /\ pc' = "metrics"
    /\ UNCHANGED <<times, temperatures, len_times, len_temps, truncated, warnings,
                   effective_length, i, valid_times, valid_temps, skipped_pairs,
                   inspected, result, error>>
(* if not valid_temps: raise *)
CheckValid ==
    /\ pc = "check_valid"
    /\ IF valid_temps = <<>>
       THEN Raise(WeatherAnalysisError("no_valid_pairs", -1, NoneV))
       ELSE pc' = "metrics" /\ UNCHANGED error
    /\ UNCHANGED <<times, temperatures, len_times, len_temps, truncated, warnings,
                   effective_length, i, valid_times, valid_temps, skipped_pairs,
                   inspected, result>>

ResultCountEffective(xs) == effective_length
(* "count": len(valid_temps) *)
ResultCount(xs) == Len(xs)

(* Median, stdev, min/max with first-occurrence time lookup, average, result *)
ComputeMetrics ==
    /\ pc = "metrics"
    /\ IF valid_temps = <<>>
       THEN /\ Raise(Uncaught("ValueError"))
            /\ UNCHANGED result
       ELSE IF calculate_standard_deviation(valid_temps).exc # ""
       THEN /\ Raise(Uncaught(calculate_standard_deviation(valid_temps).exc))
            /\ UNCHANGED result
       ELSE LET median_temp == calculate_median(valid_temps)
                stddev_temp == calculate_standard_deviation(valid_temps).val
                min_temp == ListMin(valid_temps)
                max_temp == ListMax(valid_temps)
                min_index == ListIndex(valid_temps, min_temp)
                max_index == ListIndex(valid_temps, max_temp)
                min_temp_time == valid_times[min_index + 1]
                max_temp_time == valid_times[max_index + 1]
                average == FDivInt(ListSum(valid_temps), Len(valid_temps))
            IN /\ result' = [median |-> median_temp, stddev |-> stddev_temp,
                             min |-> min_temp, min_time |-> min_temp_time,
                             max |-> max_temp, max_time |-> max_temp_time,
                             average |-> average, truncated |-> truncated,
                             warnings |-> warnings,
                             count |-> ResultCount(valid_temps)]
               /\ pc' = "returned"
               /\ UNCHANGED error
    /\ UNCHANGED <<times, temperatures, len_times, len_temps, truncated, warnings,
                   effective_length, i, valid_times, valid_temps, skipped_pairs,
                   inspected>>

Next == \/ CheckNone
        \/ GetLengths
        \/ CheckEmpty
        \/ Reconcile
        \/ LoopStep
        \/ LoopExit
        \/ CheckValid
        \/ ComputeMetrics

Spec == Init /\ [][Next]_vars

TypeOK ==
    /\ pc \in {"check_none", "lengths", "check_empty", "reconcile", "loop",
               "check_valid", "metrics", "returned", "raised"}
    /\ (pc = "raised") = (error # NoError)
    /\ (pc # "returned") => result = NoResult

----------------------------------------------------------------------------
(* Vocabulary of the properties, stated on the arguments of the call *)

Done == pc \in {"returned", "raised"}
BothSeq == times.kind = "seq" /\ temperatures.kind = "seq"
Shorter == Min2(PyLen(times), PyLen(temperatures))
Aligned == 0..(Shorter - 1)
NullPair(j) == GetItem(times, j) = NoneV \/ GetItem(temperatures, j) = NoneV
NonCoercible(v) == Float(v).exc # ""
NullIdx == {j \in Aligned : NullPair(j)}
ValidIdx == Aligned \ NullIdx
BadIdx == {j \in ValidIdx : NonCoercible(GetItem(temperatures, j))}
Lowest(S) == CHOOSE j \in S : \A l \in S : j <= l
Coerced(j) == Float(GetItem(temperatures, j)).val
InWarnings(w, ws) == \E j \in 1..Len(ws) : ws[j] = w
Malformed(a) == a.kind \in {"nolen", "sized"}
PastShape == \/ pc \in {"loop", "check_valid", "metrics", "returned"}
             \/ pc = "raised" /\ error.cause \notin {"missing", "not_sequence", "empty"}

(* C1: a non-null pair whose temperature float() cannot coerce makes the   *)
(* call fail with WeatherAnalysisError naming the lowest such index and    *)
(* its value, however many other pairs are valid.                          *)
C1_NonCoercibleIsInvalidInput ==
    (Done /\ BothSeq /\ BadIdx # {}) =>
        error = WeatherAnalysisError("invalid_temperature", Lowest(BadIdx),
                                     GetItem(temperatures, Lowest(BadIdx)))

(* C2: an argument without length or without integer indexing makes the    *)
(* call fail with WeatherAnalysisError.                                    *)
C2_NonSequenceIsInvalidInput ==
    (Done /\ (Malformed(times) \/ Malformed(temperatures))) =>
        (pc = "raised" /\ error.type = "WeatherAnalysisError")

(* C3: with different lengths, only indices below the shorter length are   *)
(* ever read, truncated is set and the warning states both lengths, in the *)
(* working state and in the returned result.                               *)
C3_TruncationReadsOnlyPrefix ==
    (HasLen(times) /\ HasLen(temperatures) /\ PyLen(times) # PyLen(temperatures)) =>
        /\ inspected \subseteq Aligned
        /\ PastShape =>
              /\ truncated
              /\ InWarnings(LengthWarning(PyLen(times), PyLen(temperatures)), warnings)
        /\ pc = "returned" =>
              /\ result.truncated
              /\ InWarnings(LengthWarning(PyLen(times), PyLen(temperatures)),
                            result.warnings)

C3_Witness ==
    /\ pc = "returned"
    /\ BothSeq
    /\ PyLen(temperatures) > PyLen(times)
    /\ NonCoercible(GetItem(temperatures, PyLen(temperatures) - 1))
    /\ result.truncated

(* C4: with k of the aligned pairs null (k below the aligned length) and   *)
(* the others coercible, every result has count the aligned length minus k *)
(* and a skipped-pair warning stating k (no such warning when k = 0), and  *)
(* a result is returned whenever the standard deviation does not raise.    *)
C4_SkippedPairsCounted ==
    (Done /\ BothSeq /\ Shorter > 0 /\ BadIdx = {} /\ Cardinality(NullIdx) < Shorter) =>
        /\ calculate_standard_deviation(valid_temps).exc = "" => pc = "returned"
        /\ pc = "returned" =>
              /\ result.count = Shorter - Cardinality(NullIdx)
              /\ Cardinality(NullIdx) > 0 =>
                    InWarnings(SkippedWarning(Cardinality(NullIdx)), result.warnings)
              /\ Cardinality(NullIdx) = 0 =>
                    \A j \in 1..Len(result.warnings) : result.warnings[j].w # "skipped"

C4_Witness ==
    /\ pc = "returned"
    /\ Cardinality(NullIdx) = 2
    /\ result.count = Shorter - 2
    /\ InWarnings(SkippedWarning(2), result.warnings)

(* C5: min and max of a result are coerced temperatures of non-null pairs  *)
(* that no other such temperature is below (above), and min_time, max_time *)
(* are the times at the lowest original index whose coerced temperature    *)
(* equals that value.                                                      *)
C5_ExtremaFirstOccurrence ==
    pc = "returned" =>
        /\ \E j \in ValidIdx : Coerced(j) = result.min
        /\ \A j \in ValidIdx : ~FLt(Coerced(j), result.min)
        /\ result.min_time =
              GetItem(times, Lowest({j \in ValidIdx : Matches(Coerced(j), result.min)}))
        /\ \E j \in ValidIdx : Coerced(j) = result.max
        /\ \A j \in ValidIdx : ~FLt(result.max, Coerced(j))
        /\ result.max_time =
              GetItem(times, Lowest({j \in ValidIdx : Matches(Coerced(j), result.max)}))

C5_Witness ==
    /\ pc = "returned"
    /\ Shorter = 3
    /\ NullIdx = {0}
    /\ Coerced(1) = Coerced(2)
    /\ GetItem(times, 1) # GetItem(times, 2)
    /\ result.min_time = GetItem(times, 1)
    /\ result.max_time = GetItem(times, 1)

(* C6: equal non-zero lengths, no None and only numeric temperatures: the  *)
(* call returns with count the input length, truncated false, no warnings. *)
C6_CleanInputSucceeds ==
    (Done /\ BothSeq /\ PyLen(times) = PyLen(temperatures) /\ PyLen(times) > 0
          /\ NullIdx = {}
          /\ \A j \in Aligned : GetItem(temperatures, j).k \in {"int", "bigint"}) =>
        /\ pc = "returned"
        /\ result.count = PyLen(times)
        /\ ~result.truncated
        /\ result.warnings = <<>>

(* C7: when every aligned pair is null the call fails with the             *)
(* no-valid-pairs error and no result, after the skipped-pair warning (and *)
(* the truncation warning, for different lengths) was recorded.            *)
C7_AllNullIsNoValidPairs ==
    (Done /\ BothSeq /\ Shorter > 0 /\ NullIdx = Aligned) =>
        /\ pc = "raised"
        /\ error = WeatherAnalysisError("no_valid_pairs", -1, NoneV)
        /\ result = NoResult
        /\ InWarnings(SkippedWarning(Shorter), warnings)
        /\ PyLen(times) # PyLen(temperatures) =>
              /\ truncated
              /\ InWarnings(LengthWarning(PyLen(times), PyLen(temperatures)), warnings)

C7_Witness ==
    /\ pc = "raised"
    /\ error.cause = "no_valid_pairs"
    /\ NullIdx = Aligned
    /\ truncated
    /\ Len(warnings) = 2

(* C8: a finished call either returned a result or raised                  *)
(* WeatherAnalysisError; no other exception escapes.                       *)
C8_OnlyInvalidInputEscapes ==
    Done => \/ pc = "returned" /\ error = NoError
            \/ pc = "raised" /\ error.type = "WeatherAnalysisError"

(* C9: an iteration at an index whose time or temperature is None skips    *)
(* the pair and counts it, without raising, whatever the other value is.   *)
C9_NullTestBeforeCoercion ==
    [][(pc = "loop" /\ i < effective_length /\ BothSeq /\ NullPair(i)) =>
          /\ pc' = "loop"
          /\ error' = NoError
          /\ skipped_pairs' = skipped_pairs + 1
          /\ i' = i + 1
          /\ valid_times' = valid_times
          /\ valid_temps' = valid_temps]_vars

C9_Witness ==
    /\ pc = "returned"
    /\ skipped_pairs >= 1
    /\ \E j \in Aligned : /\ GetItem(times, j) = NoneV
                          /\ GetItem(temperatures, j) # NoneV
                          /\ NonCoercible(GetItem(temperatures, j))

(* C10: the failure raised is the first that applies in the order missing, *)
(* malformed, empty, non-coercible at the lowest index, no valid pairs;    *)
(* otherwise the call returns.                                             *)
C10_FirstCauseInStageOrder ==
    Done =>
        IF times.kind = "none" \/ temperatures.kind = "none"
        THEN error = WeatherAnalysisError("missing", -1, NoneV)
        ELSE IF Malformed(times) \/ Malformed(temperatures)
        THEN error = WeatherAnalysisError("not_sequence", -1, NoneV)
        ELSE IF PyLen(times) = 0 \/ PyLen(temperatures) = 0
        THEN error = WeatherAnalysisError("empty", -1, NoneV)
        ELSE IF BadIdx # {}
        THEN error = WeatherAnalysisError("invalid_temperature", Lowest(BadIdx),
                                          GetItem(temperatures, Lowest(BadIdx)))
        ELSE IF ValidIdx = {}
        THEN error = WeatherAnalysisError("no_valid_pairs", -1, NoneV)
        ELSE pc = "returned"
====
